---- MODULE Spec2Model ----
(***************************************************************************)
(* HealthCredX: the hash-chained ledger (blockchain.py), the verification  *)
(* workflow and credential issuance (app.py request handlers over the      *)
(* database.py UPDATE/INSERT helpers) and the visit recording that anchors *)
(* medical records on the ledger.                                          *)
(*                                                                         *)
(* Time is counted in whole days.  SHA-256 is modelled as a collision-free *)
(* digest: the digest of a block is the canonical (key-sorted) encoding it *)
(* is computed from, so two blocks have the same digest exactly when       *)
(* index, timestamp, data and previous_hash all agree.                     *)
(***************************************************************************)
EXTENDS Integers, Sequences, FiniteSets, TLC

(***************************************************************************)
(* Bounds of the model.                                                    *)
(***************************************************************************)
MaxVers == 1
MaxChain == 4
MaxNow == 1
MaxKept == 2
MaxIssueDay == 11
MaxMonths == 12

(***************************************************************************)
(* SQL NULL / Python None, and a present value.                            *)
(***************************************************************************)
Null == <<>>
Some(v) == <<v>>

(***************************************************************************)
(* The users table: ids and roles (database.py CHECK(role IN ...)).        *)
(* User 0 stands for a request without a session.                          *)
(***************************************************************************)
Anonymous == 0
Practitioners == {1, 2}
Organizations == {3}
Admins == {4}
Users == Practitioners \cup Organizations \cup Admins
Callers == Users \cup {Anonymous}

RoleOf(u) ==
  IF u \in Practitioners THEN "practitioner"
  ELSE IF u \in Organizations THEN "organization"
  ELSE IF u \in Admins THEN "admin"
  ELSE "none"

NameOf(u) == IF u = 1 THEN "Dr. A" ELSE IF u = 2 THEN "Dr. B" ELSE "Staff"

\* users.practitioner_type; user 2 registered without one (NULL).
PractitionerTypeOf(u) == IF u = 1 THEN Some("Cardiologist") ELSE Null

(***************************************************************************)
(* auth.require_role: the wrapped handler runs only for a logged-in user   *)
(* whose role is one of roles; anyone else is redirected.                  *)
(***************************************************************************)
\* require_role without the test of user['role'] against the roles: any login passes.
require_role_login_only(u, roles) == u # Anonymous

require_role(u, roles) == u # Anonymous /\ RoleOf(u) \in roles

VARIABLES
  chain,     \* Blockchain.chain: sequence of blocks
  vers,      \* verifications table, row i has id i
  verdocs,   \* verification_documents: ver id -> number of linked documents
  creds,     \* credentials table, row i has id i
  appts,     \* appointments table: row i has id i, value is its status
  records,   \* medical_records table, row i has id i
  now,       \* the wall clock, in days
  threads,   \* request threads in flight (concurrent specification)
  tampered,  \* the out-of-band edit made to a stored block, if any
  call       \* the last direct call of a library function and its outcome

vars == <<chain, vers, verdocs, creds, appts, records, now, threads, tampered, call>>

(***************************************************************************)
(* Block and its digest.                                                   *)
(***************************************************************************)
Bool2Json(b) == IF b THEN "true" ELSE "false"

\* json.dumps(data, sort_keys=True) of the three payload shapes.
DumpsData(d) ==
  IF "user_id" \in DOMAIN d
  THEN "{issuer:" \o d.issuer \o ",name:" \o d.name
       \o ",skill:" \o (IF d.skill = Null THEN "null" ELSE d.skill[1])
       \o ",user_id:" \o d.user_id \o ",verified:" \o Bool2Json(d.verified) \o "}"
  ELSE IF d.type = "genesis"
  THEN "{message:" \o d.message \o ",type:" \o d.type \o "}"
  ELSE "{appointment_id:" \o ToString(d.appointment_id)
       \o ",diagnosis:" \o d.diagnosis
       \o ",doctor_id:" \o ToString(d.doctor_id)
       \o ",issuer:" \o d.issuer
       \o ",prescription:" \o d.prescription
       \o ",signature:" \o d.signature
       \o ",type:" \o d.type
       \o ",verified:" \o Bool2Json(d.verified) \o "}"

calculate_hash(index, timestamp, data, previous_hash) ==
  "{data:" \o DumpsData(data) \o ",index:" \o ToString(index)
  \o ",previous_hash:" \o previous_hash
  \o ",timestamp:" \o ToString(timestamp) \o "}"

Block(index, timestamp, data, previous_hash) ==
  [index |-> index, timestamp |-> timestamp, data |-> data,
   previous_hash |-> previous_hash,
   hash |-> calculate_hash(index, timestamp, data, previous_hash)]

BlockHashOk(b) ==
  b.hash = calculate_hash(b.index, b.timestamp, b.data, b.previous_hash)

GenesisData == [type |-> "genesis", message |-> "HealthCredX Blockchain Initialized"]

create_genesis_block(t) == Block(0, t, GenesisData, "0")

get_latest_block(c) == c[Len(c)]

CredentialData(user_id, name, skill) ==
  [user_id |-> user_id, name |-> name, skill |-> skill,
   verified |-> TRUE, issuer |-> "HealthCredX Platform"]

\* add_credential linking the new block to the genesis block instead of the latest.
add_credential_stale(c, t, user_id, name, skill) ==
  LET latest_block == get_latest_block(c)
      new_index == latest_block.index + 1
  IN Append(c, Block(new_index, t, CredentialData(user_id, name, skill),
                     c[1].hash))

\* Blockchain.add_credential: the chain after the append.
add_credential(c, t, user_id, name, skill) ==
  LET latest_block == get_latest_block(c)
      new_index == latest_block.index + 1
  IN Append(c, Block(new_index, t, CredentialData(user_id, name, skill),
                     latest_block.hash))

MedicalData(record_data) ==
  [appointment_id |-> record_data.appointment_id,
   diagnosis |-> record_data.diagnosis,
   prescription |-> record_data.prescription,
   signature |-> record_data.signature,
   doctor_id |-> record_data.doctor_id,
   type |-> "medical_record", verified |-> TRUE,
   issuer |-> "HealthCredX Platform"]

\* add_medical_record overwriting the latest block instead of appending.
add_medical_record_overwrite(c, t, record_data) ==
  LET latest_block == get_latest_block(c)
      new_index == latest_block.index + 1
  IN [c EXCEPT ![Len(c)] =
        Block(new_index, t, MedicalData(record_data), latest_block.hash)]

\* Blockchain.add_medical_record: the chain after the append.
add_medical_record(c, t, record_data) ==
  LET latest_block == get_latest_block(c)
      new_index == latest_block.index + 1
  IN Append(c, Block(new_index, t, MedicalData(record_data), latest_block.hash))

\* is_chain_valid without the recomputation of each block's hash.
is_chain_valid_links_only(c) ==
  \A i \in 2..Len(c) : c[i].previous_hash = c[i - 1].hash

\* Blockchain.is_chain_valid: blocks 1..len-1 are checked, block 0 is not.
is_chain_valid(c) ==
  \A i \in 2..Len(c) :
    /\ BlockHashOk(c[i])
    /\ c[i].previous_hash = c[i - 1].hash

\* verify_credential answering with the payload of the latest block.
verify_credential_latest(c, credential_hash) ==
  LET found == {i \in DOMAIN c : c[i].hash = credential_hash}
  IN IF found = {} THEN [is_valid |-> FALSE, data |-> Null]
     ELSE [is_valid |-> TRUE, data |-> Some(c[Len(c)].data)]

\* Blockchain.verify_credential: the first block carrying the hash, if any.
verify_credential(c, credential_hash) ==
  LET found == {i \in DOMAIN c : c[i].hash = credential_hash}
  IN IF found = {} THEN [is_valid |-> FALSE, data |-> Null]
     ELSE LET first == CHOOSE i \in found : \A k \in found : i <= k
          IN [is_valid |-> TRUE, data |-> Some(c[first].data)]

\* Blockchain.get_chain: every block as a dictionary.
get_chain(c) == c

(***************************************************************************)
(* database.py: the verifications table.  Every UPDATE is                  *)
(* "... WHERE id = ?" with no condition on the current status; an id that  *)
(* matches no row updates nothing.                                         *)
(***************************************************************************)
NewVerification(user_id) ==
  [user_id |-> user_id, status |-> "submitted",
   ai_score |-> Null, ai_analysis |-> Null,
   org_verdict |-> Null, org_comments |-> Null,
   org_reviewed_by |-> Null, org_reviewed_at |-> Null,
   admin_verdict |-> Null, admin_comments |-> Null,
   admin_reviewed_by |-> Null, admin_reviewed_at |-> Null,
   validity_months |-> Null]

create_verification(vs, user_id) == Append(vs, NewVerification(user_id))

get_verification_by_id(vs, ver_id) ==
  IF ver_id \in DOMAIN vs THEN Some(vs[ver_id]) ELSE Null

update_verification_status(vs, ver_id, status) ==
  [i \in DOMAIN vs |->
     IF i = ver_id THEN [vs[i] EXCEPT !.status = status] ELSE vs[i]]

update_verification_ai_analysis(vs, ver_id, score, analysis) ==
  [i \in DOMAIN vs |->
     IF i = ver_id
     THEN [vs[i] EXCEPT !.ai_score = Some(score), !.ai_analysis = Some(analysis),
                        !.status = "pending_org"]
     ELSE vs[i]]

update_verification_org_review(vs, ver_id, verdict, comments, reviewer_id, t) ==
  LET new_status == IF verdict = "approved" THEN "org_approved" ELSE "org_rejected"
  IN [i \in DOMAIN vs |->
        IF i = ver_id
        THEN [vs[i] EXCEPT !.org_verdict = Some(verdict),
                           !.org_comments = Some(comments),
                           !.org_reviewed_by = Some(reviewer_id),
                           !.org_reviewed_at = Some(t),
                           !.status = new_status]
        ELSE vs[i]]

update_verification_admin_decision(vs, ver_id, verdict, comments, admin_id, validity_months, t) ==
  LET new_status == IF verdict = "approved" THEN "approved" ELSE "dismissed"
  IN [i \in DOMAIN vs |->
        IF i = ver_id
        THEN [vs[i] EXCEPT !.admin_verdict = Some(verdict),
                           !.admin_comments = Some(comments),
                           !.admin_reviewed_by = Some(admin_id),
                           !.admin_reviewed_at = Some(t),
                           !.validity_months = validity_months,
                           !.status = new_status]
        ELSE vs[i]]

(***************************************************************************)
(* database.py: the credentials table.                                     *)
(***************************************************************************)
DaysPerMonth == 30

\* timedelta(days=30 * validity_months) raises TypeError for None.
ExpiryRaises(validity_months) == validity_months = Null

create_credential(cs, verification_id, user_id, blockchain_hash, validity_months, t) ==
  LET issued_at == t
      expires_at == issued_at + DaysPerMonth * validity_months[1]
  IN Append(cs, [verification_id |-> verification_id, user_id |-> user_id,
                 blockchain_hash |-> blockchain_hash,
                 issued_at |-> issued_at, expires_at |-> expires_at,
                 status |-> "active"])

\* SELECT ... WHERE user_id = ? AND status = 'active' ORDER BY issued_at DESC LIMIT 1
ActiveCredentials(cs, user_id) ==
  {i \in DOMAIN cs : cs[i].user_id = user_id /\ cs[i].status = "active"}

get_active_credential(cs, user_id) ==
  LET act == ActiveCredentials(cs, user_id)
  IN IF act = {} THEN Null
     ELSE Some(cs[CHOOSE i \in act : \A j \in act : cs[j].issued_at <= cs[i].issued_at])

\* check_expired_credentials with expires_at <= now.
check_expired_credentials_inclusive(cs, t) ==
  [i \in DOMAIN cs |->
     IF cs[i].status = "active" /\ cs[i].expires_at <= t
     THEN [cs[i] EXCEPT !.status = "expired"] ELSE cs[i]]

\* UPDATE credentials SET status = 'expired' WHERE status = 'active' AND expires_at < ?
check_expired_credentials(cs, t) ==
  [i \in DOMAIN cs |->
     IF cs[i].status = "active" /\ cs[i].expires_at < t
     THEN [cs[i] EXCEPT !.status = "expired"] ELSE cs[i]]

ExpiredCount(cs, t) ==
  Cardinality({i \in DOMAIN cs : cs[i].status = "active" /\ cs[i].expires_at < t})

(***************************************************************************)
(* ai_verifier.py: the scoring oracle and the batch aggregation.           *)
(***************************************************************************)
\* analyze_medical_document: a scored analysis, or an error dict with score 0.
OracleResults ==
  {[ok |-> TRUE, authenticity_score |-> 85],
   [ok |-> FALSE, authenticity_score |-> 0]}

RECURSIVE SumScores(_)
SumScores(rs) ==
  IF rs = <<>> THEN 0 ELSE rs[1].authenticity_score + SumScores(Tail(rs))

\* Python round(total / n): round half to even.
Round(total, n) ==
  LET q == total \div n
      r == total % n
  IN IF 2 * r < n THEN q
     ELSE IF 2 * r > n THEN q + 1
     ELSE IF q % 2 = 0 THEN q ELSE q + 1

batch_analyze_documents(results) ==
  LET total_score == SumScores(results)
      n == Len(results)
  IN [average_score |-> IF n > 0 THEN Round(total_score, n) ELSE 0,
      individual_results |-> results,
      total_documents |-> n]

(***************************************************************************)
(* crypto_utils.py and the user_keys table.                                *)
(***************************************************************************)
Salts == {0}

\* seed_demo_data stores a key pair for seeded doctors; create_user does not.
get_user_keys(u) ==
  IF u = 1 THEN Some([private_key |-> "priv1", public_key |-> "pub1"]) ELSE Null

\* RSA-PSS: the signature depends on the key, the message and a random salt.
sign_data(private_key, data, salt) ==
  "sig(" \o private_key \o "," \o data \o "," \o ToString(salt) \o ")"

\* generate_key_pair: the key pairs that exist, as PEM strings.
KeyPairs ==
  {[private_key |-> "priv1", public_key |-> "pub1"],
   [private_key |-> "priv2", public_key |-> "pub2"]}

\* serialization.load_pem_public_key: the key a PEM string holds, if it is one.
load_pem_public_key(public_key_pem) ==
  LET matching == {kp \in KeyPairs : kp.public_key = public_key_pem}
  IN IF matching = {} THEN Null ELSE Some(CHOOSE kp \in matching : TRUE)

\* PSS salts of the signatures made directly.
SaltInputs == {0, 1}

\* The messages signed and verified directly.
MessageInputs == {"", "flu|rest", "flu|rest "}

\* public_key.verify: accepts exactly the signatures the private key makes over data.
PssAccepts(key, data, signature) ==
  \E salt \in SaltInputs : signature = sign_data(key.private_key, data, salt)

\* verify_signature ignoring the message.
verify_signature_any_message(public_key_pem, data, signature_b64) ==
  LET public_key == load_pem_public_key(public_key_pem)
  IN IF public_key = Null THEN "ValueError"
     ELSE IF \E d \in MessageInputs : PssAccepts(public_key[1], d, signature_b64)
          THEN "True"
          ELSE "False"

\* verify_signature: the key is loaded outside the try block, so a string
\* that is not a PEM key raises; every failure after that returns False.
verify_signature(public_key_pem, data, signature_b64) ==
  LET public_key == load_pem_public_key(public_key_pem)
  IN IF public_key = Null THEN "ValueError"
     ELSE IF PssAccepts(public_key[1], data, signature_b64) THEN "True"
     ELSE "False"

(***************************************************************************)
(* Request inputs.                                                         *)
(***************************************************************************)
ALLOWED_EXTENSIONS == {"png", "jpg", "jpeg", "pdf"}
\* request.files.getlist('documents'): no file, or one file with an allowed extension.
FileLists == {<<>>, <<"pdf">>}
\* one oracle answer per linked document
ResultLists == {<<r>> : r \in OracleResults}
VerIds == 1..(MaxVers + 1)
\* request.json verdict: the two legal values, another string, or absent.
VerdictInputs == {Some("approved"), Some("rejected"), Some("maybe"), Null}
\* request.json comments: given or absent.
CommentInputs == {Some("c1")}
\* request.json validity_months: a number, JSON null, or absent.
MonthInputs == {[present |-> TRUE, value |-> Some(1)],
                [present |-> TRUE, value |-> Null],
                [present |-> FALSE, value |-> Null]}
ApptIds == 1..2
Diagnoses == {"flu"}
Prescriptions == {"rest"}

\* dict.get(key, default)
Get(input, default) == IF input = Null THEN default ELSE input[1]

NoThreadStep == UNCHANGED <<threads, tampered, call>>

RECURSIVE CountAllowed(_)
CountAllowed(files) ==
  IF files = <<>> THEN 0
  ELSE (IF files[1] \in ALLOWED_EXTENSIONS THEN 1 ELSE 0) + CountAllowed(Tail(files))

(***************************************************************************)
(* app.py request handlers, each run from request to response.  For every  *)
(* handler XCode is the HTTP status it answers with (302 is the redirect   *)
(* of require_role, 500 an exception escaping the handler) and X is its    *)
(* effect on the tables and the chain.                                     *)
(***************************************************************************)
\* upload_documents: days left on the caller's active credential.
UploadAllowed(cs, u, t) ==
  LET active_credential == get_active_credential(cs, u)
  IN IF active_credential # Null
     THEN ~(active_credential[1].expires_at - t > 7)
     ELSE TRUE

UploadCode(u, files) ==
  IF ~require_role(u, {"practitioner"}) THEN 302
  ELSE IF ~UploadAllowed(creds, u, now) THEN 403
  ELSE IF Len(files) = 0 THEN 400
  ELSE 200

\* POST /practitioner/upload
Upload(u, files) ==
  /\ NoThreadStep
  /\ UNCHANGED <<chain, creds, appts, records, now>>
  /\ IF UploadCode(u, files) # 200
     THEN UNCHANGED <<vers, verdocs>>
     ELSE /\ Len(vers) < MaxVers
          /\ LET verification_id == Len(vers) + 1
             IN /\ vers' = update_verification_status(
                             create_verification(vers, u), verification_id,
                             "ai_analysis")
                /\ verdocs' = Append(verdocs, CountAllowed(files))

AnalyzeCode(u, ver_id) ==
  IF ~require_role(u, {"practitioner", "admin"}) THEN 302
  ELSE IF get_verification_by_id(vers, ver_id) = Null THEN 404
  ELSE IF verdocs[ver_id] = 0 THEN 400
  ELSE 200

\* POST /api/analyze-verification/<ver_id>
AnalyzeVerification(u, ver_id, results) ==
  /\ NoThreadStep
  /\ UNCHANGED <<chain, creds, appts, records, now, verdocs>>
  /\ IF AnalyzeCode(u, ver_id) # 200
     THEN UNCHANGED vers
     ELSE /\ Len(results) = verdocs[ver_id]
          /\ LET batch_result == batch_analyze_documents(results)
             IN vers' = update_verification_status(
                          update_verification_ai_analysis(
                            vers, ver_id, batch_result.average_score, batch_result),
                          ver_id, "pending_org")

\* org_submit_review without the check of the verdict against the two legal values.
OrgSubmitReviewCode_any_string(u, ver_id, verdict_in) ==
  IF ~require_role(u, {"organization"}) THEN 302
  ELSE IF verdict_in = Null THEN 400
  ELSE 200

OrgSubmitReviewCode(u, ver_id, verdict_in) ==
  IF ~require_role(u, {"organization"}) THEN 302
  ELSE IF verdict_in \notin {Some("approved"), Some("rejected")} THEN 400
  ELSE 200

\* POST /api/organization/submit-review/<ver_id>
OrgSubmitReview(u, ver_id, verdict_in, comments_in) ==
  /\ NoThreadStep
  /\ UNCHANGED <<chain, creds, appts, records, now, verdocs>>
  /\ IF OrgSubmitReviewCode(u, ver_id, verdict_in) # 200
     THEN UNCHANGED vers
     ELSE LET verdict == verdict_in[1]
              comments == Get(comments_in, "")
              reviewed == update_verification_org_review(
                            vers, ver_id, verdict, comments, u, now)
          IN vers' = IF verdict = "approved"
                     THEN update_verification_status(reviewed, ver_id, "pending_admin")
                     ELSE reviewed

\* data.get('validity_months', 12)
ValidityMonths(months_in) ==
  IF months_in.present THEN months_in.value ELSE Some(12)

AdminApproveCode(u, ver_id, months_in) ==
  IF ~require_role(u, {"admin"}) THEN 302
  ELSE IF get_verification_by_id(vers, ver_id) = Null THEN 404
  ELSE IF ExpiryRaises(ValidityMonths(months_in)) THEN 500
  ELSE 200

\* POST /api/admin/approve/<ver_id>
AdminApprove(u, ver_id, months_in, comments_in) ==
  /\ NoThreadStep
  /\ UNCHANGED <<appts, records, now, verdocs>>
  /\ IF AdminApproveCode(u, ver_id, months_in) \in {302, 404}
     THEN UNCHANGED <<vers, chain, creds>>
     ELSE /\ Len(chain) < MaxChain
          /\ LET validity_months == ValidityMonths(months_in)
                 comments == Get(comments_in, "")
                 verification == get_verification_by_id(vers, ver_id)[1]
                 chain2 == add_credential(chain, now,
                                          ToString(verification.user_id),
                                          NameOf(verification.user_id),
                                          PractitionerTypeOf(verification.user_id))
                 credential_hash == get_latest_block(chain2).hash
             IN /\ vers' = update_verification_admin_decision(
                             vers, ver_id, "approved", comments, u,
                             validity_months, now)
                /\ chain' = chain2
                /\ IF ExpiryRaises(validity_months)
                   THEN UNCHANGED creds
                   ELSE creds' = create_credential(
                                   creds, ver_id, verification.user_id,
                                   credential_hash, validity_months, now)

AdminDismissCode(u, ver_id) ==
  IF ~require_role(u, {"admin"}) THEN 302 ELSE 200

\* POST /api/admin/dismiss/<ver_id>
AdminDismiss(u, ver_id, comments_in) ==
  /\ NoThreadStep
  /\ UNCHANGED <<chain, creds, appts, records, now, verdocs>>
  /\ IF AdminDismissCode(u, ver_id) # 200
     THEN UNCHANGED vers
     ELSE vers' = update_verification_admin_decision(
                    vers, ver_id, "dismissed",
                    Get(comments_in, "Dismissed by admin"), u, Null, now)

\* GET /admin/dashboard: sweeps expired credentials.
AdminDashboard(u) ==
  /\ NoThreadStep
  /\ UNCHANGED <<chain, vers, verdocs, appts, records, now>>
  /\ IF ~require_role(u, {"admin"})
     THEN UNCHANGED creds
     ELSE creds' = check_expired_credentials(creds, now)

PractitionerVisitCode(u, appt_id) ==
  IF ~require_role(u, {"practitioner"}) THEN 302
  ELSE IF appt_id \notin DOMAIN appts THEN 404
  ELSE 200

\* POST /practitioner/visit/<appt_id>
PractitionerVisit(u, appt_id, diagnosis_text, prescription_text, salt) ==
  /\ NoThreadStep
  /\ UNCHANGED <<vers, verdocs, creds, now>>
  /\ IF PractitionerVisitCode(u, appt_id) # 200
     THEN UNCHANGED <<chain, appts, records>>
     ELSE /\ Len(chain) < MaxChain
          /\ LET record_data == diagnosis_text \o "|" \o prescription_text
                 keys == get_user_keys(u)
                 signature == IF keys # Null
                              THEN sign_data(keys[1].private_key, record_data, salt)
                              ELSE "Simulated Signature"
                 chain2 == add_medical_record(chain, now,
                             [appointment_id |-> appt_id,
                              diagnosis |-> diagnosis_text,
                              prescription |-> prescription_text,
                              signature |-> signature,
                              doctor_id |-> u])
                 blockchain_hash == get_latest_block(chain2).hash
             IN /\ chain' = chain2
                /\ records' = Append(records,
                                [appointment_id |-> appt_id,
                                 diagnosis_text |-> diagnosis_text,
                                 prescription_text |-> prescription_text,
                                 doctor_signature |-> signature,
                                 blockchain_hash |-> blockchain_hash])
                /\ appts' = [appts EXCEPT ![appt_id] = "completed"]

\* GET /api/blockchain (no login): the body of the response.
GetBlockchainBody == [chain |-> get_chain(chain), length |-> Len(chain)]

GetBlockchain ==
  /\ GetBlockchainBody.length = Len(chain)
  /\ UNCHANGED vars

\* POST /api/verify-credential (no login): the body of the response.
VerifyCredentialBody(credential_hash) ==
  LET result == verify_credential(chain, credential_hash)
  IN IF result.is_valid
     THEN [verified |-> TRUE, data |-> result.data[1]]
     ELSE [verified |-> FALSE, message |-> "Credential not found on blockchain"]

VerifyCredential(credential_hash) ==
  /\ VerifyCredentialBody(credential_hash).verified \in BOOLEAN
  /\ UNCHANGED vars

\* The clock advances.
Tick ==
  /\ now < MaxNow
  /\ now' = now + 1
  /\ UNCHANGED <<chain, vers, verdocs, creds, appts, records, threads, tampered, call>>

\* The workers that serve requests, and a worker with no request.
ThreadIds == {"t1", "t2"}

IdleThread ==
  [pc |-> "idle", op |-> "none", u |-> Anonymous, ver_id |-> 0,
   verdict |-> "", comments |-> "", months |-> Null, seen |-> "none",
   latest |-> Null, hash |-> Null, code |-> 0, overlap |-> FALSE]

NoTamper == [pos |-> 0, field |-> "none"]

NoCall == [fn |-> "none"]

Init ==
  /\ now = 0
  /\ chain = <<create_genesis_block(0)>>
  /\ vers = <<>>
  /\ verdocs = <<>>
  /\ creds = <<>>
  /\ appts = <<"scheduled">>
  /\ records = <<>>
  /\ threads = [t \in ThreadIds |-> IdleThread]
  /\ tampered = NoTamper
  /\ call = NoCall

\* The applicants of the model: practitioner 1 (and every caller who may not upload).
UploadCallers == Callers \ {2}

DoUpload == \E u \in UploadCallers, files \in FileLists : Upload(u, files)
DoAnalyze ==
  \E u \in Callers, ver_id \in VerIds :
    \E results \in ResultLists :
      AnalyzeVerification(u, ver_id, results)
DoOrgSubmitReview ==
  \E u \in Callers, ver_id \in VerIds, v \in VerdictInputs, c \in CommentInputs :
    OrgSubmitReview(u, ver_id, v, c)
DoAdminApprove ==
  \E u \in Callers, ver_id \in VerIds, m \in MonthInputs, c \in CommentInputs :
    AdminApprove(u, ver_id, m, c)
DoAdminDismiss ==
  \E u \in Callers, ver_id \in VerIds, c \in CommentInputs :
    AdminDismiss(u, ver_id, c)
DoAdminDashboard == \E u \in Callers : AdminDashboard(u)
DoPractitionerVisit ==
  \E u \in Callers, a \in ApptIds, d \in Diagnoses, p \in Prescriptions, s \in Salts :
    PractitionerVisit(u, a, d, p, s)

\* The hashes a caller may ask about: those on the chain and one that is not.
HashInputs == {chain[i].hash : i \in DOMAIN chain} \cup {"deadbeef"}

DoGetBlockchain == GetBlockchain
DoVerifyCredential == \E h \in HashInputs : VerifyCredential(h)

Next ==
  \/ DoUpload
  \/ DoAnalyze
  \/ DoOrgSubmitReview
  \/ DoAdminApprove
  \/ DoAdminDismiss
  \/ DoAdminDashboard
  \/ DoPractitionerVisit
  \/ DoGetBlockchain
  \/ DoVerifyCredential

Spec == Init /\ [][Next]_vars

(***************************************************************************)
(* The ledger on its own: the requests that write the chain (an upload     *)
(* creates the application that an approval names).                        *)
(***************************************************************************)
NextLedger ==
  \/ DoUpload
  \/ DoAdminApprove
  \/ DoPractitionerVisit
  \/ DoGetBlockchain
  \/ DoVerifyCredential

SpecLedger == Init /\ [][NextLedger]_vars

(***************************************************************************)
(* The server process stops and is started again.  The tables live in the  *)
(* sqlite file and are kept (db.init_db only creates what is missing),     *)
(* while blockchain = Blockchain() at module load builds a new in-memory   *)
(* chain holding only a genesis block stamped with the time of the start.  *)
(* The clock runs between requests, and a restart is taken while fewer     *)
(* than MaxKept rows would outlive it.                                     *)
(***************************************************************************)
Restart ==
  /\ Len(creds) + Len(records) < MaxKept
  /\ chain' = <<create_genesis_block(now)>>
  /\ threads' = [t \in ThreadIds |-> IdleThread]
  /\ UNCHANGED <<vers, verdocs, creds, appts, records, now, tampered, call>>

DoRestart == Restart

NextRestart ==
  \/ DoUpload
  \/ DoAdminApprove
  \/ DoPractitionerVisit
  \/ DoGetBlockchain
  \/ DoVerifyCredential
  \/ Tick
  \/ DoRestart

SpecRestart == Init /\ [][NextRestart]_vars

(***************************************************************************)
(* crypto_utils called directly, as test_expansion.py does: sign_data and  *)
(* verify_signature over every combination of key, message and signature.  *)
(***************************************************************************)
\* A string that is no PEM key, and one that is no base64 signature.
PublicKeyInputs == {kp.public_key : kp \in KeyPairs} \cup {"not a pem"}
SignatureInputs ==
  {sign_data(kp.private_key, d, salt) :
     kp \in KeyPairs, d \in MessageInputs, salt \in SaltInputs} \cup {"%%%"}

CallFrame ==
  UNCHANGED <<chain, vers, verdocs, creds, appts, records, now, threads, tampered>>

SignData(private_key, data, salt) ==
  /\ call' = [fn |-> "sign_data", private_key |-> private_key, data |-> data,
              signature |-> sign_data(private_key, data, salt)]
  /\ CallFrame

VerifySignature(public_key_pem, data, signature_b64) ==
  /\ call' = [fn |-> "verify_signature", public_key_pem |-> public_key_pem,
              data |-> data, signature_b64 |-> signature_b64,
              outcome |-> verify_signature(public_key_pem, data, signature_b64)]
  /\ CallFrame

DoSignData ==
  \E kp \in KeyPairs, d \in MessageInputs, salt \in SaltInputs :
    SignData(kp.private_key, d, salt)
DoVerifySignature ==
  \E k \in PublicKeyInputs, d \in MessageInputs, sig \in SignatureInputs :
    VerifySignature(k, d, sig)

NextCrypto ==
  \/ DoSignData
  \/ DoVerifySignature

SpecCrypto == Init /\ [][NextCrypto]_vars

(***************************************************************************)
(* database.create_credential called directly: one row inserted into an    *)
(* empty table, for every issue day and every validity in months.  Day 0   *)
(* of the clock is 1 January of a common year; the issue days are days of  *)
(* that January.                                                           *)
(***************************************************************************)
IssueDays == 0..MaxIssueDay
MonthsInputs == 1..MaxMonths

CreateCredential(t, validity_months) ==
  /\ call' = [fn |-> "create_credential", validity_months |-> validity_months,
              row |-> create_credential(<<>>, 1, 1, "hash", Some(validity_months), t)[1]]
  /\ CallFrame

DoCreateCredential ==
  \E t \in IssueDays, validity_months \in MonthsInputs :
    CreateCredential(t, validity_months)

NextExpiry == DoCreateCredential

SpecExpiry == Init /\ [][NextExpiry]_vars

(***************************************************************************)
(* The expiry sweep on its own: database.check_expired_credentials called  *)
(* directly and through the admin dashboard, over every small credentials  *)
(* table, as the clock runs.                                               *)
(***************************************************************************)
CredentialRows ==
  {[verification_id |-> 1, user_id |-> 1, blockchain_hash |-> "hash",
    issued_at |-> 0, expires_at |-> e, status |-> st] :
     e \in 0..(MaxNow + 1), st \in {"active", "revoked"}}

CredentialTables ==
  UNION {[1..n -> CredentialRows] : n \in 0..MaxKept}

InitSweep ==
  /\ now = 0
  /\ chain = <<create_genesis_block(0)>>
  /\ vers = <<>>
  /\ verdocs = <<>>
  /\ creds \in CredentialTables
  /\ appts = <<"scheduled">>
  /\ records = <<>>
  /\ threads = [t \in ThreadIds |-> IdleThread]
  /\ tampered = NoTamper
  /\ call = NoCall

CheckExpiredCredentials ==
  /\ creds' = check_expired_credentials(creds, now)
  /\ call' = [fn |-> "check_expired_credentials",
              expired_count |-> ExpiredCount(creds, now)]
  /\ UNCHANGED <<chain, vers, verdocs, appts, records, now, threads, tampered>>

DoCheckExpiredCredentials == CheckExpiredCredentials

NextSweep ==
  \/ DoCheckExpiredCredentials
  \/ DoAdminDashboard
  \/ Tick

SpecSweep == InitSweep /\ [][NextSweep]_vars

(***************************************************************************)
(* Out-of-band tampering: Block is a plain object, so one field of one     *)
(* stored block can be overwritten after the block was appended.           *)
(***************************************************************************)
TamperStrings == {"forged"}
TamperFields == {"data", "hash", "previous_hash"}

TamperData(d) ==
  IF "user_id" \in DOMAIN d THEN [d EXCEPT !.name = "Mallory"]
  ELSE IF d.type = "genesis" THEN [d EXCEPT !.message = "edited"]
  ELSE [d EXCEPT !.diagnosis = "edited"]

Tamper(i, field, v) ==
  /\ tampered = NoTamper
  /\ i \in DOMAIN chain
  /\ \/ /\ field = "data"
        /\ chain' = [chain EXCEPT ![i].data = TamperData(chain[i].data)]
     \/ /\ field = "hash"
        /\ v # chain[i].hash
        /\ chain' = [chain EXCEPT ![i].hash = v]
     \/ /\ field = "previous_hash"
        /\ v # chain[i].previous_hash
        /\ chain' = [chain EXCEPT ![i].previous_hash = v]
  /\ tampered' = [pos |-> i, field |-> field]
  /\ UNCHANGED <<vers, verdocs, creds, appts, records, now, threads, call>>

DoTamper ==
  \E i \in 1..MaxChain, field \in TamperFields, v \in TamperStrings :
    Tamper(i, field, v)

NextTamper ==
  \/ DoUpload
  \/ DoAdminApprove
  \/ DoPractitionerVisit
  \/ DoTamper

SpecTamper == Init /\ [][NextTamper]_vars

(***************************************************************************)
(* Concurrent requests.  app.run serves every request on a thread of its   *)
(* own, and each database.py helper opens, commits and closes its own      *)
(* connection: a handler is a sequence of separately committed steps, and  *)
(* the steps of two requests interleave.  threads[t] is the request that   *)
(* worker t is serving: its handler (op), its position (pc), its inputs,   *)
(* what it has read so far, and the HTTP status it answered with.          *)
(***************************************************************************)
InFlight(th) == th.pc \notin {"idle", "done"}

\* The status of the application as a request finds it on arrival.
SeenStatus(ver_id) ==
  IF ver_id \in DOMAIN vers THEN vers[ver_id].status ELSE "none"

\* Worker t takes a request; the workers already serving one now overlap it.
StartThread(t, th) ==
  LET busy == \E o \in ThreadIds \ {t} : InFlight(threads[o])
  IN threads' = [o \in ThreadIds |->
                   IF o = t THEN [th EXCEPT !.overlap = busy /\ InFlight(th)]
                   ELSE IF InFlight(threads[o]) /\ InFlight(th)
                        THEN [threads[o] EXCEPT !.overlap = TRUE]
                        ELSE threads[o]]

Finish(th, code) == [th EXCEPT !.pc = "done", !.code = code]

ThreadFrame == UNCHANGED <<verdocs, appts, records, now, tampered, call>>

\* org_submit_review up to its first write: require_role and the verdict check.
BeginOrgReview(t, u, ver_id, verdict_in, comments_in) ==
  /\ threads[t].pc = "idle"
  /\ LET code == OrgSubmitReviewCode(u, ver_id, verdict_in)
         th == [IdleThread EXCEPT !.op = "org_submit_review", !.u = u,
                                  !.ver_id = ver_id,
                                  !.verdict = Get(verdict_in, ""),
                                  !.comments = Get(comments_in, ""),
                                  !.seen = SeenStatus(ver_id)]
     IN StartThread(t, IF code = 200 THEN [th EXCEPT !.pc = "org_update"]
                       ELSE Finish(th, code))
  /\ UNCHANGED <<vers, chain, creds>>
  /\ ThreadFrame

\* db.update_verification_org_review(ver_id, verdict, comments, user['id'])
OrgUpdate(t) ==
  LET th == threads[t]
  IN /\ th.pc = "org_update"
     /\ vers' = update_verification_org_review(
                  vers, th.ver_id, th.verdict, th.comments, th.u, now)
     /\ threads' = [threads EXCEPT ![t] =
                      IF th.verdict = "approved"
                      THEN [th EXCEPT !.pc = "org_status"]
                      ELSE Finish(th, 200)]
     /\ UNCHANGED <<chain, creds>>
     /\ ThreadFrame

\* db.update_verification_status(ver_id, 'pending_admin')
OrgStatus(t) ==
  LET th == threads[t]
  IN /\ th.pc = "org_status"
     /\ vers' = update_verification_status(vers, th.ver_id, "pending_admin")
     /\ threads' = [threads EXCEPT ![t] = Finish(th, 200)]
     /\ UNCHANGED <<chain, creds>>
     /\ ThreadFrame

\* admin_approve up to its first write: require_role and get_verification_by_id.
BeginAdminApprove(t, u, ver_id, months_in, comments_in) ==
  /\ threads[t].pc = "idle"
  /\ LET th == [IdleThread EXCEPT !.op = "admin_approve", !.u = u,
                                  !.ver_id = ver_id,
                                  !.months = ValidityMonths(months_in),
                                  !.comments = Get(comments_in, ""),
                                  !.seen = SeenStatus(ver_id)]
     IN StartThread(t,
          IF ~require_role(u, {"admin"}) THEN Finish(th, 302)
          ELSE IF get_verification_by_id(vers, ver_id) = Null THEN Finish(th, 404)
          ELSE [th EXCEPT !.pc = "approve_update"])
  /\ UNCHANGED <<vers, chain, creds>>
  /\ ThreadFrame

\* db.update_verification_admin_decision(ver_id, 'approved', ...)
ApproveUpdate(t) ==
  LET th == threads[t]
  IN /\ th.pc = "approve_update"
     /\ vers' = update_verification_admin_decision(
                  vers, th.ver_id, "approved", th.comments, th.u, th.months, now)
     /\ threads' = [threads EXCEPT ![t] = [th EXCEPT !.pc = "approve_read"]]
     /\ UNCHANGED <<chain, creds>>
     /\ ThreadFrame

\* add_credential: latest_block = self.get_latest_block()
ApproveReadLatest(t) ==
  LET th == threads[t]
      latest_block == get_latest_block(chain)
  IN /\ th.pc = "approve_read"
     /\ threads' = [threads EXCEPT ![t] =
                      [th EXCEPT !.pc = "approve_append",
                                 !.latest = Some([index |-> latest_block.index,
                                                  hash |-> latest_block.hash])]]
     /\ UNCHANGED <<vers, chain, creds>>
     /\ ThreadFrame

\* add_credential: self.chain.append(Block(new_index, ..., latest_block.hash))
ApproveAppend(t) ==
  LET th == threads[t]
      latest_block == th.latest[1]
      user_id == vers[th.ver_id].user_id
      new_block == Block(latest_block.index + 1, now,
                         CredentialData(ToString(user_id), NameOf(user_id),
                                        PractitionerTypeOf(user_id)),
                         latest_block.hash)
  IN /\ th.pc = "approve_append"
     /\ Len(chain) < MaxChain
     /\ chain' = Append(chain, new_block)
     /\ threads' = [threads EXCEPT ![t] =
                      [th EXCEPT !.pc = "approve_create",
                                 !.hash = Some(new_block.hash)]]
     /\ UNCHANGED <<vers, creds>>
     /\ ThreadFrame

\* db.create_credential(ver_id, user_id, credential_hash, validity_months)
ApproveCreate(t) ==
  LET th == threads[t]
  IN /\ th.pc = "approve_create"
     /\ IF ExpiryRaises(th.months)
        THEN /\ UNCHANGED creds
             /\ threads' = [threads EXCEPT ![t] = Finish(th, 500)]
        ELSE /\ creds' = create_credential(creds, th.ver_id,
                                           vers[th.ver_id].user_id,
                                           th.hash[1], th.months, now)
             /\ threads' = [threads EXCEPT ![t] = Finish(th, 200)]
     /\ UNCHANGED <<vers, chain>>
     /\ ThreadFrame

\* admin_dismiss up to its write: require_role.
BeginAdminDismiss(t, u, ver_id, comments_in) ==
  /\ threads[t].pc = "idle"
  /\ LET th == [IdleThread EXCEPT !.op = "admin_dismiss", !.u = u,
                                  !.ver_id = ver_id,
                                  !.comments = Get(comments_in, "Dismissed by admin"),
                                  !.seen = SeenStatus(ver_id)]
     IN StartThread(t, IF AdminDismissCode(u, ver_id) = 200
                       THEN [th EXCEPT !.pc = "dismiss_update"]
                       ELSE Finish(th, 302))
  /\ UNCHANGED <<vers, chain, creds>>
  /\ ThreadFrame

\* db.update_verification_admin_decision(ver_id, 'dismissed', comments, user['id'])
DismissUpdate(t) ==
  LET th == threads[t]
  IN /\ th.pc = "dismiss_update"
     /\ vers' = update_verification_admin_decision(
                  vers, th.ver_id, "dismissed", th.comments, th.u, Null, now)
     /\ threads' = [threads EXCEPT ![t] = Finish(th, 200)]
     /\ UNCHANGED <<chain, creds>>
     /\ ThreadFrame

\* The reviewers whose requests race.
Reviewers == Organizations \cup Admins

ThreadStep ==
  \E t \in ThreadIds :
    \/ \E u \in Reviewers, ver_id \in VerIds, v \in VerdictInputs, c \in CommentInputs :
         BeginOrgReview(t, u, ver_id, v, c)
    \/ OrgUpdate(t)
    \/ OrgStatus(t)
    \/ \E u \in Reviewers, ver_id \in VerIds, m \in MonthInputs, c \in CommentInputs :
         BeginAdminApprove(t, u, ver_id, m, c)
    \/ ApproveUpdate(t)
    \/ ApproveReadLatest(t)
    \/ ApproveAppend(t)
    \/ ApproveCreate(t)
    \/ \E u \in Reviewers, ver_id \in VerIds, c \in CommentInputs :
         BeginAdminDismiss(t, u, ver_id, c)
    \/ DismissUpdate(t)

\* The application is brought to review before the reviewers act on it.
NoThreadYet == \A t \in ThreadIds : threads[t].pc = "idle"

NextConc ==
  \/ NoThreadYet /\ DoUpload
  \/ NoThreadYet /\ DoAnalyze
  \/ NoThreadYet /\ DoOrgSubmitReview
  \/ ThreadStep

SpecConc == Init /\ [][NextConc]_vars

(***************************************************************************)
(* The organization's review on its own: applications are uploaded, then   *)
(* the workers serve submit-review requests.                               *)
(***************************************************************************)
ReviewStep ==
  \E t \in ThreadIds :
    \/ \E u \in Callers, ver_id \in VerIds, v \in VerdictInputs, c \in CommentInputs :
         BeginOrgReview(t, u, ver_id, v, c)
    \/ OrgUpdate(t)
    \/ OrgStatus(t)

NextReview ==
  \/ NoThreadYet /\ DoUpload
  \/ NoThreadYet /\ DoOrgSubmitReview
  \/ ReviewStep

SpecReview == Init /\ [][NextReview]_vars

(***************************************************************************)
(* The verification workflow on its own: applications are uploaded, then   *)
(* the workers serve the review requests of every caller, the anonymous    *)
(* one included.                                                           *)
(***************************************************************************)
WorkflowStep ==
  \E t \in ThreadIds :
    \/ \E u \in Callers, ver_id \in VerIds, v \in VerdictInputs, c \in CommentInputs :
         BeginOrgReview(t, u, ver_id, v, c)
    \/ OrgUpdate(t)
    \/ OrgStatus(t)
    \/ \E u \in Callers, ver_id \in VerIds, m \in MonthInputs, c \in CommentInputs :
         BeginAdminApprove(t, u, ver_id, m, c)
    \/ ApproveUpdate(t)
    \/ ApproveReadLatest(t)
    \/ ApproveAppend(t)
    \/ ApproveCreate(t)
    \/ \E u \in Callers, ver_id \in VerIds, c \in CommentInputs :
         BeginAdminDismiss(t, u, ver_id, c)
    \/ DismissUpdate(t)

NextWorkflow ==
  \/ NoThreadYet /\ DoUpload
  \/ WorkflowStep

SpecWorkflow == Init /\ [][NextWorkflow]_vars

(***************************************************************************)
(* Renewal on its own: practitioners who already hold credentials upload   *)
(* again.  The credentials table holds rows issued on successive days by   *)
(* create_credential; the day is drawn around the day the one-month        *)
(* credentials run out.  vers holds the applications uploaded from here    *)
(* on (upload reads no earlier application).                               *)
(***************************************************************************)
RenewalMonths == {1, 12}

RenewalDays == (DaysPerMonth - 8)..(DaysPerMonth + 2)

\* The table after issuing, on day k - 1, a credential of issues[k][2] months
\* to practitioner issues[k][1].
IssuedTable(issues) ==
  LET table[k \in 0..Len(issues)] ==
        IF k = 0 THEN <<>>
        ELSE create_credential(table[k - 1], k, issues[k][1], "h",
                               Some(issues[k][2]), k - 1)
  IN table[Len(issues)]

RenewalTables ==
  UNION {{IssuedTable(issues) : issues \in [1..n -> Practitioners \X RenewalMonths]}
           : n \in 0..MaxKept}

InitRenewal ==
  /\ now \in RenewalDays
  /\ chain = <<create_genesis_block(0)>>
  /\ vers = <<>>
  /\ verdocs = <<>>
  /\ creds \in RenewalTables
  /\ appts = <<"scheduled">>
  /\ records = <<>>
  /\ threads = [t \in ThreadIds |-> IdleThread]
  /\ tampered = NoTamper
  /\ call = NoCall

NextRenewal ==
  \/ DoUpload
  \/ DoAdminDashboard

SpecRenewal == InitRenewal /\ [][NextRenewal]_vars

(***************************************************************************)
(* C1: every chain built from the genesis block by appends (credential     *)
(* issuances and visit recordings, in any order, one request at a time)    *)
(* passes is_chain_valid.                                                  *)
(***************************************************************************)
C1_AppendedChainValid == is_chain_valid(chain)

IsCredentialBlock(b) == "user_id" \in DOMAIN b.data
IsMedicalBlock(b) == "user_id" \notin DOMAIN b.data /\ b.data.type = "medical_record"

C1_Witness ==
  /\ Len(chain) >= 3
  /\ \E i, j \in DOMAIN chain : IsCredentialBlock(chain[i]) /\ IsMedicalBlock(chain[j])
  /\ is_chain_valid(chain)

(***************************************************************************)
(* C2 as stated: after one stored block (the genesis block included) had   *)
(* its payload, hash or previous_hash changed, is_chain_valid is false.    *)
(***************************************************************************)
C2_AnyTamperDetected ==
  tampered.field # "none" => ~is_chain_valid(chain)

(***************************************************************************)
(* C2 amended: after one stored block other than the genesis block had its *)
(* payload, hash or previous_hash changed, is_chain_valid is false.        *)
(***************************************************************************)
C2_NonGenesisTamperDetected ==
  tampered.pos > 1 => ~is_chain_valid(chain)

C2_Witness ==
  /\ tampered.pos > 1
  /\ tampered.field = "data"
  /\ Len(chain) > tampered.pos
  /\ ~is_chain_valid(chain)

(***************************************************************************)
(* The workflow graph of the specification, as the status changes one      *)
(* request may make: an upload leaves the new application in ai_analysis   *)
(* (submitted -> ai_analysis), an organization approval takes              *)
(* pending_org -> org_approved -> pending_admin.                           *)
(***************************************************************************)
RequestEdges ==
  {<<"ai_analysis", "pending_org">>,
   <<"pending_org", "pending_admin">>,
   <<"pending_org", "org_rejected">>,
   <<"pending_admin", "approved">>,
   <<"pending_admin", "dismissed">>}

TerminalStatuses == {"org_rejected", "approved", "dismissed"}

ReviewFields(r) ==
  <<r.status, r.org_verdict, r.org_comments, r.org_reviewed_by,
    r.admin_verdict, r.admin_comments, r.admin_reviewed_by, r.validity_months>>

OrgFields(r) ==
  <<r.status, r.org_verdict, r.org_comments, r.org_reviewed_by, r.org_reviewed_at>>

AiFields(r) == <<r.status, r.ai_score, r.ai_analysis>>

(***************************************************************************)
(* C3 as stated: the status of an application only ever changes along the  *)
(* edges submitted -> ai_analysis -> pending_org -> (org_approved ->       *)
(* pending_admin -> (approved | dismissed)) | org_rejected; any other      *)
(* request leaves the status unchanged.                                    *)
(***************************************************************************)
C3_StatusFollowsGraph ==
  [][\A i \in DOMAIN vers :
       vers'[i].status # vers[i].status
         => <<vers[i].status, vers'[i].status>> \in RequestEdges]_vars

(***************************************************************************)
(* C4 as stated: once the status of an application is terminal             *)
(* (org_rejected, approved, dismissed) no request changes its status or    *)
(* its recorded verdicts, comments, reviewers or validity_months.          *)
(***************************************************************************)
C4_TerminalImmutable ==
  [][\A i \in DOMAIN vers :
       vers[i].status \in TerminalStatuses
         => ReviewFields(vers'[i]) = ReviewFields(vers[i])]_vars

(***************************************************************************)
(* C5 as stated: an admin approve or dismiss on an application that is not *)
(* in pending_admin fails and leaves the applications, the chain and the   *)
(* credentials unchanged.                                                  *)
(***************************************************************************)
C5_AdminVerdictNeedsPendingAdmin ==
  [][\A u \in Users, i \in DOMAIN vers, m \in MonthInputs, c \in CommentInputs :
       /\ (vers[i].status # "pending_admin" /\ AdminApprove(u, i, m, c))
            => (AdminApproveCode(u, i, m) # 200 /\ UNCHANGED <<vers, chain, creds>>)
       /\ (vers[i].status # "pending_admin" /\ AdminDismiss(u, i, c))
            => (AdminDismissCode(u, i) # 200 /\ UNCHANGED <<vers, chain, creds>>)]_vars

(***************************************************************************)
(* C6 as stated: an organization verdict on an application that is not in  *)
(* pending_org fails and leaves its status and org_* fields unchanged.     *)
(***************************************************************************)
C6_OrgVerdictNeedsPendingOrg ==
  [][\A u \in Users, i \in DOMAIN vers, v \in VerdictInputs, c \in CommentInputs :
       (vers[i].status # "pending_org" /\ OrgSubmitReview(u, i, v, c))
         => /\ OrgSubmitReviewCode(u, i, v) # 200
            /\ OrgFields(vers'[i]) = OrgFields(vers[i])]_vars

(***************************************************************************)
(* C7 as stated: analyze-verification on an application that is not in     *)
(* ai_analysis fails and leaves status, ai_score and ai_analysis unchanged.*)
(***************************************************************************)
C7_AnalysisNeedsAiAnalysis ==
  [][\A u \in Users, i \in DOMAIN vers, r \in ResultLists :
       (vers[i].status # "ai_analysis" /\ AnalyzeVerification(u, i, r))
         => /\ AnalyzeCode(u, i) # 200
            /\ AiFields(vers'[i]) = AiFields(vers[i])]_vars

(***************************************************************************)
(* C9 as stated: for every application at most one Credential record and   *)
(* at most one credential-issuance block are ever created.                 *)
(***************************************************************************)
CredentialsOf(i) == {k \in DOMAIN creds : creds[k].verification_id = i}
CredentialBlocks == {k \in DOMAIN chain : IsCredentialBlock(chain[k])}

C9_IssuedAtMostOnce ==
  /\ \A i \in DOMAIN vers : Cardinality(CredentialsOf(i)) <= 1
  /\ Cardinality(CredentialBlocks) <= Len(vers)

(***************************************************************************)
(* C10 as stated: after an admin approve request has finished, every       *)
(* credential-issuance block has a Credential record carrying its hash and *)
(* every approved application has a Credential record.                     *)
(***************************************************************************)
C10_IssuanceAtomic ==
  /\ \A k \in CredentialBlocks :
       \E j \in DOMAIN creds : creds[j].blockchain_hash = chain[k].hash
  /\ \A i \in DOMAIN vers :
       vers[i].status = "approved" => CredentialsOf(i) # {}


(***************************************************************************)
(* C8: of two verdict requests served concurrently on the same application *)
(* (two organization verdicts that both found it pending_org, or an admin  *)
(* approve and an admin dismiss that both found it pending_admin), at most *)
(* one answers with success.                                               *)
(***************************************************************************)
RacingVerdicts(a, b) ==
  /\ a.overlap /\ b.overlap
  /\ a.ver_id = b.ver_id
  /\ \/ /\ a.op = "org_submit_review" /\ b.op = "org_submit_review"
        /\ a.seen = "pending_org" /\ b.seen = "pending_org"
     \/ /\ a.op = "admin_approve" /\ b.op = "admin_dismiss"
        /\ a.seen = "pending_admin" /\ b.seen = "pending_admin"

C8_OneRacingVerdictSucceeds ==
  \A t1, t2 \in ThreadIds :
    (/\ t1 # t2
     /\ threads[t1].pc = "done" /\ threads[t2].pc = "done"
     /\ RacingVerdicts(threads[t1], threads[t2]))
    => ~(threads[t1].code = 200 /\ threads[t2].code = 200)

(***************************************************************************)
(* C11 as stated: no request appends a credential block or creates a       *)
(* Credential record in a state where is_chain_valid is false.             *)
(***************************************************************************)
IssuesCredential ==
  \/ /\ Len(chain') > Len(chain)
     /\ IsCredentialBlock(chain'[Len(chain')])
  \/ Len(creds') > Len(creds)

C11_TamperedChainHaltsIssuance ==
  [][IssuesCredential => is_chain_valid(chain)]_vars

(***************************************************************************)
(* C12 as stated: appends run from concurrent request threads never        *)
(* interleave, so no two blocks share an index or a previous_hash and      *)
(* is_chain_valid stays true.                                              *)
(***************************************************************************)
C12_AppendsSerialized ==
  /\ \A i, j \in DOMAIN chain :
       i # j => /\ chain[i].index # chain[j].index
                /\ chain[i].previous_hash # chain[j].previous_hash
  /\ is_chain_valid(chain)

(***************************************************************************)
(* C13 as stated: in every reachable state the chain is non-empty, starts  *)
(* with the genesis block (index 0, previous_hash "0"), the block at       *)
(* position i has index i, and every later block's previous_hash is the    *)
(* hash of the block before it.                                            *)
(***************************************************************************)
C13_ChainWellFormed ==
  /\ Len(chain) >= 1
  /\ chain[1].data = GenesisData
  /\ chain[1].index = 0
  /\ chain[1].previous_hash = "0"
  /\ \A i \in DOMAIN chain : chain[i].index = i - 1
  /\ \A i \in 2..Len(chain) : chain[i].previous_hash = chain[i - 1].hash

(***************************************************************************)
(* C14: the chain is append-only.  Every step leaves the chain of the      *)
(* earlier state as a prefix of the later chain, each earlier block        *)
(* unchanged in every field, and the read requests (GET /api/blockchain,   *)
(* POST /api/verify-credential) leave the chain as it was.                 *)
(***************************************************************************)
IsPrefix(c, d) == Len(c) <= Len(d) /\ SubSeq(d, 1, Len(c)) = c

ResolvesToSubject(credential) ==
  LET result == verify_credential(chain, credential.blockchain_hash)
  IN /\ result.is_valid
     /\ "user_id" \in DOMAIN result.data[1]
     /\ result.data[1].user_id = ToString(credential.user_id)
     /\ result.data[1].skill = PractitionerTypeOf(credential.user_id)

C15_CredentialResolves ==
  \A k \in DOMAIN creds : ResolvesToSubject(creds[k])

(***************************************************************************)
(* C16 as stated: in every reachable state every Credential record with    *)
(* status active belongs to an application whose status is approved.       *)
(***************************************************************************)
C16_ActiveCredentialApproved ==
  \A k \in DOMAIN creds :
    creds[k].status = "active"
      => /\ creds[k].verification_id \in DOMAIN vers
         /\ vers[creds[k].verification_id].status = "approved"

(***************************************************************************)
(* C17 as stated: the bodies answered by the public endpoints (GET         *)
(* /api/blockchain, POST /api/verify-credential for any hash) carry no     *)
(* private key and no diagnosis or prescription text of a clinical record. *)
(***************************************************************************)
PrivateKeys ==
  {get_user_keys(u)[1].private_key : u \in {p \in Users : get_user_keys(p) # Null}}

\* A payload as it is serialised into a public response.
CarriesSecret(data) ==
  \/ "diagnosis" \in DOMAIN data /\ data.diagnosis \in Diagnoses
  \/ "prescription" \in DOMAIN data /\ data.prescription \in Prescriptions
  \/ "private_key" \in DOMAIN data /\ data.private_key \in PrivateKeys

C17_PublicBodiesCarryNoSecret ==
  /\ \A i \in DOMAIN GetBlockchainBody.chain :
       ~CarriesSecret(GetBlockchainBody.chain[i].data)
  /\ \A h \in HashInputs :
       VerifyCredentialBody(h).verified => ~CarriesSecret(VerifyCredentialBody(h).data)

(***************************************************************************)
(* C18 as stated: the payload of every clinical-record block consists of   *)
(* the visit id, the author id, a digest of the content and a              *)
(* signature-present flag: it holds neither the diagnosis or prescription  *)
(* text nor the signature value.                                           *)
(***************************************************************************)
C18_ClinicalPayloadRedacted ==
  \A i \in DOMAIN chain :
    IsMedicalBlock(chain[i])
      => {"diagnosis", "prescription", "signature"} \cap DOMAIN chain[i].data = {}

(***************************************************************************)
(* C19 as stated: in every reachable state the signature stored with each  *)
(* medical record of a recorded visit is never the placeholder "Simulated  *)
(* Signature" and verifies under the author's stored public key over the   *)
(* record's content (diagnosis and prescription joined by '|').            *)
(***************************************************************************)
\* The author of a record, as its ledger block names them.
AuthorOf(record) == verify_credential(chain, record.blockchain_hash).data[1].doctor_id

SignatureVerifies(record) ==
  LET keys == get_user_keys(AuthorOf(record))
      content == record.diagnosis_text \o "|" \o record.prescription_text
  IN /\ keys # Null
     /\ verify_signature(keys[1].public_key, content, record.doctor_signature) = "True"

C19_RecordSignatureVerifies ==
  \A k \in DOMAIN records :
    /\ records[k].doctor_signature # "Simulated Signature"
    /\ SignatureVerifies(records[k])

(***************************************************************************)
(* C20: verify_signature(public_key, message, signature) returns true if   *)
(* and only if the signature was made by sign_data with the private key    *)
(* matching public_key over exactly that message (the empty message        *)
(* included); for a malformed signature, the public key of another key     *)
(* pair or a different message it returns false and does not raise.        *)
(***************************************************************************)
ProducedBy(public_key_pem, data, signature) ==
  \E kp \in KeyPairs, salt \in SaltInputs :
    /\ kp.public_key = public_key_pem
    /\ signature = sign_data(kp.private_key, data, salt)

RecordsOf(a) == {k \in DOMAIN records : records[k].appointment_id = a}
MedicalBlocksOf(a) ==
  {k \in DOMAIN chain : IsMedicalBlock(chain[k]) /\ chain[k].data.appointment_id = a}

C21_VisitRecordedOnce ==
  \A a \in DOMAIN appts :
    /\ Cardinality(RecordsOf(a)) <= 1
    /\ Cardinality(MedicalBlocksOf(a)) <= 1

(***************************************************************************)
(* C22: verify_credential(h) answers (true, payload) exactly when a block  *)
(* on the chain has hash h, with the payload of that block, and (false,    *)
(* none) for any other string; so the hash an append returned looks up the *)
(* payload that was appended.                                              *)
(***************************************************************************)
C22_LookupExact ==
  /\ \A i \in DOMAIN chain :
       verify_credential(chain, chain[i].hash)
         = [is_valid |-> TRUE, data |-> Some(chain[i].data)]
  /\ \A h \in HashInputs :
       (\A i \in DOMAIN chain : chain[i].hash # h)
         => verify_credential(chain, h) = [is_valid |-> FALSE, data |-> Null]

C22_Witness ==
  /\ Len(records) >= 1
  /\ Len(creds) >= 1
  /\ \A k \in DOMAIN records :
       verify_credential(chain, records[k].blockchain_hash).is_valid
  /\ ~verify_credential(chain, "deadbeef").is_valid

(***************************************************************************)
(* C23 as stated: a credential issued at instant T with validity_months =  *)
(* m expires at T plus m calendar months.                                  *)
(***************************************************************************)
C23_ExpiresAfterCalendarMonths ==
  LET \* lengths of the months of a common year, January first
      month_lengths == <<31, 28, 31, 30, 31, 30, 31, 31, 30, 31, 30, 31>>
      \* days in the first m calendar months counted from 1 January
      days_in_months[m \in 0..call.validity_months] ==
        IF m = 0 THEN 0
        ELSE days_in_months[m - 1] + month_lengths[((m - 1) % 12) + 1]
  IN call.fn = "create_credential"
       => call.row.expires_at
            = call.row.issued_at + days_in_months[call.validity_months]

(***************************************************************************)
(* C24: the expiry sweep at time now turns to expired exactly the          *)
(* credentials that are active with expires_at < now, returns their        *)
(* number and leaves every other credential and all other state as it      *)
(* was; a second sweep at the same time returns 0 and changes nothing.     *)
(***************************************************************************)
Due(i) == creds[i].status = "active" /\ creds[i].expires_at < now

C24_SweepExact ==
  [][CheckExpiredCredentials
       => /\ DOMAIN creds' = DOMAIN creds
          /\ \A i \in DOMAIN creds :
               /\ Due(i) => creds'[i] = [creds[i] EXCEPT !.status = "expired"]
               /\ ~Due(i) => creds'[i] = creds[i]
          /\ call'.expired_count = Cardinality({i \in DOMAIN creds : Due(i)})
          /\ UNCHANGED <<chain, vers, verdocs, appts, records, now>>
          /\ ExpiredCount(creds', now') = 0
          /\ check_expired_credentials(creds', now') = creds']_vars

C24_Witness ==
  /\ call.fn = "check_expired_credentials"
  /\ call.expired_count >= 1
  /\ \E i, j \in DOMAIN creds :
       /\ creds[i].status = "expired"
       /\ creds[j].status = "active"

(***************************************************************************)
(* C25 as stated: when the scoring oracle fails for a document of an       *)
(* application in ai_analysis, the analyze request leaves the application  *)
(* in ai_analysis with ai_score and ai_analysis still null.                *)
(***************************************************************************)
OracleFailed(results) == \E k \in DOMAIN results : ~results[k].ok

C25_FailedOracleKeepsAiAnalysis ==
  [][\A u \in Users, i \in DOMAIN vers, r \in ResultLists :
       (/\ vers[i].status = "ai_analysis"
        /\ OracleFailed(r)
        /\ AnalyzeVerification(u, i, r))
         => /\ vers'[i].status = "ai_analysis"
            /\ vers'[i].ai_score = Null
            /\ vers'[i].ai_analysis = Null]_vars

(***************************************************************************)
(* C26 as stated: in every reachable state an application that is          *)
(* org_approved, org_rejected, pending_admin, approved or dismissed has    *)
(* its organization verdict, reviewer and review time recorded, one that   *)
(* is approved or dismissed has its admin verdict, reviewer and review     *)
(* time recorded, and the organization fields (the admin fields) are null  *)
(* before the organization (the admin) has acted.                          *)
(***************************************************************************)
OrgRecorded(r) ==
  r.org_verdict # Null /\ r.org_reviewed_by # Null /\ r.org_reviewed_at # Null
OrgBlank(r) ==
  r.org_verdict = Null /\ r.org_reviewed_by = Null /\ r.org_reviewed_at = Null
AdminRecorded(r) ==
  r.admin_verdict # Null /\ r.admin_reviewed_by # Null /\ r.admin_reviewed_at # Null
AdminBlank(r) ==
  r.admin_verdict = Null /\ r.admin_reviewed_by = Null /\ r.admin_reviewed_at = Null

C26_TransitionsRecordActor ==
  \A i \in DOMAIN vers :
    LET r == vers[i]
    IN /\ r.status \in {"org_approved", "org_rejected", "pending_admin",
                        "approved", "dismissed"} => OrgRecorded(r)
       /\ r.status \in {"approved", "dismissed"} => AdminRecorded(r)
       /\ r.status \in {"submitted", "ai_analysis", "pending_org"} => OrgBlank(r)
       /\ r.status \notin {"approved", "dismissed"} => AdminBlank(r)


(***************************************************************************)
(* C27 as stated: an organization approval reaches pending_admin as one    *)
(* all-or-nothing step, so no request can find an application resting in   *)
(* org_approved: in every reachable state of the committed database, no    *)
(* application has status org_approved.                                    *)
(***************************************************************************)
C27_OrgApprovedNeverObserved ==
  \A i \in DOMAIN vers : vers[i].status # "org_approved"


(***************************************************************************)
(* C28: a submit-review request whose verdict is neither 'approved' nor    *)
(* 'rejected' (a missing verdict included) is answered with an error (400  *)
(* to an organization, the login redirect to anyone else), performs no     *)
(* write, and leaves every application, with its status and its            *)
(* org_verdict, org_comments, org_reviewed_by and org_reviewed_at, as it   *)
(* was.                                                                    *)
(***************************************************************************)
InvalidVerdicts == VerdictInputs \ {Some("approved"), Some("rejected")}

C28_InvalidVerdictRejected ==
  [][\A u \in Callers, ver_id \in VerIds, v \in InvalidVerdicts, c \in CommentInputs :
       /\ OrgSubmitReview(u, ver_id, v, c)
            => /\ OrgSubmitReviewCode(u, ver_id, v) \in {302, 400}
               /\ u \in Organizations => OrgSubmitReviewCode(u, ver_id, v) = 400
               /\ vers' = vers
       /\ \A t \in ThreadIds :
            BeginOrgReview(t, u, ver_id, v, c)
              => /\ threads'[t].pc = "done"
                 /\ threads'[t].code \in {302, 400}
                 /\ u \in Organizations => threads'[t].code = 400
                 /\ vers' = vers]_vars

C28_Witness ==
  \E t \in ThreadIds :
    LET th == threads[t]
    IN /\ th.pc = "done"
       /\ th.op = "org_submit_review"
       /\ th.u \in Organizations
       /\ th.code = 400
       /\ th.ver_id \in DOMAIN vers
       /\ vers[th.ver_id].status = "ai_analysis"
       /\ OrgBlank(vers[th.ver_id])


(***************************************************************************)
(* C29: every workflow transition is made by its designated party.  In     *)
(* every step, an application's status changes to org_approved,            *)
(* org_rejected or pending_admin only in a write of a submit-review        *)
(* request made by a user whose role is organization; it changes to        *)
(* approved or dismissed, and a block or a credential is added, only in a  *)
(* write of an approve or dismiss request made by a user whose role is     *)
(* admin; and a submit-review request of anyone but an organization, or an *)
(* approve or dismiss request of anyone but an admin (the anonymous caller *)
(* included), is answered at once with the redirect and leaves the         *)
(* applications, the credentials and the chain unchanged, whichever        *)
(* application id it names.                                                *)
(***************************************************************************)
StatusBecomes(i, statuses) ==
  /\ i \in DOMAIN vers /\ i \in DOMAIN vers'
  /\ vers'[i].status \in statuses
  /\ vers[i].status # vers'[i].status

ByOrganization ==
  \E t \in ThreadIds :
    /\ threads[t].u \in Organizations
    /\ threads[t].op = "org_submit_review"
    /\ OrgUpdate(t) \/ OrgStatus(t)

ByAdmin ==
  \E t \in ThreadIds :
    /\ threads[t].u \in Admins
    /\ threads[t].op \in {"admin_approve", "admin_dismiss"}
    /\ ApproveUpdate(t) \/ ApproveAppend(t) \/ ApproveCreate(t) \/ DismissUpdate(t)

Refused(t) ==
  /\ threads'[t].pc = "done"
  /\ threads'[t].code = 302
  /\ UNCHANGED <<vers, creds, chain>>

C29_OnlyDesignatedParty ==
  [][/\ (\E i \in VerIds :
           StatusBecomes(i, {"org_approved", "org_rejected", "pending_admin"}))
          => ByOrganization
     /\ (\/ \E i \in VerIds : StatusBecomes(i, {"approved", "dismissed"})
         \/ creds' # creds
         \/ chain' # chain)
          => ByAdmin
     /\ \A t \in ThreadIds, u \in Callers, ver_id \in VerIds, c \in CommentInputs :
          /\ \A v \in VerdictInputs :
               (u \notin Organizations /\ BeginOrgReview(t, u, ver_id, v, c))
                 => Refused(t)
          /\ \A m \in MonthInputs :
               (u \notin Admins /\ BeginAdminApprove(t, u, ver_id, m, c))
                 => Refused(t)
          /\ (u \notin Admins /\ BeginAdminDismiss(t, u, ver_id, c))
               => Refused(t)]_vars

C29_Witness ==
  /\ \E t \in ThreadIds :
       /\ threads[t].pc = "done"
       /\ threads[t].op = "admin_approve"
       /\ threads[t].u \in Practitioners
       /\ threads[t].code = 302
       /\ threads[t].ver_id \in DOMAIN vers
  /\ \E t \in ThreadIds, k \in DOMAIN creds :
       /\ threads[t].pc = "done"
       /\ threads[t].op = "admin_approve"
       /\ threads[t].u \in Admins
       /\ vers[threads[t].ver_id].status = "approved"
       /\ creds[k].verification_id = threads[t].ver_id


(***************************************************************************)
(* C30 as stated: a practitioner who holds an active credential with more  *)
(* than 7 days left before expires_at is refused by the upload POST (403), *)
(* which creates no application and no document link; a practitioner who   *)
(* holds no such credential and sends files is accepted, and the new       *)
(* application, owned by the practitioner, ends the request in             *)
(* ai_analysis.                                                            *)
(***************************************************************************)
HoldsValidCredential(cs, u, t) ==
  \E i \in ActiveCredentials(cs, u) : cs[i].expires_at - t > 7

C30_ValidCredentialBlocksUpload ==
  [][\A u \in Practitioners, files \in FileLists :
       Upload(u, files)
         => IF HoldsValidCredential(creds, u, now)
            THEN /\ UploadCode(u, files) = 403
                 /\ UNCHANGED <<vers, verdocs>>
            ELSE Len(files) > 0
                   => /\ UploadCode(u, files) = 200
                      /\ Len(vers') = Len(vers) + 1
                      /\ vers'[Len(vers')].user_id = u
                      /\ vers'[Len(vers')].status = "ai_analysis"]_vars

====
